---- MODULE Spec2Model ----
(***************************************************************************)
(* Model of the MinecraftLevelExporter converters.                         *)
(*                                                                         *)
(* converter.go holds two programs: the dense converter (lines 1-212),     *)
(* which reads a nested 3D array of block ids, and the structure           *)
(* converter (lines 214-527), which reads a flat index buffer with a       *)
(* palette and a block dictionary.  Each main is a straight pipeline of    *)
(* stages; every stage is one action here and pc is main's position.       *)
(*                                                                         *)
(* Go slices are modelled as sequences: the Go element a[i] is a[i + 1].   *)
(***************************************************************************)
EXTENDS Integers, Sequences, FiniteSets, TLC

VARIABLES
    pipeline,      \* which of the two programs runs: "dense" or "structure"
    pc,            \* position of main
    inputFile,     \* the file named by os.Args[1]: [kind, value]
    dictFile,      \* the file named by os.Args[2] (structure): [kind, value]
    inputArray,    \* dense: the decoded [][][]int
    paddedArray,   \* dense: the result of padArray
    inputMap,      \* structure: the decoded input map
    blockDict,     \* structure: the decoded dictionary
    blocks,        \* structure: the resolved flat block-id buffer
    sections,      \* the []Section returned by convertToSections
    writes,        \* dense: writes[p + 1] counts the assignments to sections[p]
    errors,        \* the messages given to logger.Error, in order
    stages,        \* the stages that ran, in order
    output         \* whether os.WriteFile wrote the level file

vars == <<pipeline, pc, inputFile, dictFile, inputArray, paddedArray, inputMap,
          blockDict, blocks, sections, writes, errors, stages, output>>

(***************************************************************************)
(* Program constants.                                                      *)
(***************************************************************************)
SectionSize == 16
SectionBlocks == 4096
PaddingValue == -1
DefaultBlockId == 0
OutOfRangeBlockId == -1

(***************************************************************************)
(* Bounds of the model.                                                    *)
(***************************************************************************)
MaxSmall == 1

\* Extents tried on each axis: the small ones, one full section, and one
\* block more than a section.
Sizes == (0 .. MaxSmall) \cup {SectionSize, SectionSize + 1}
SmallSizes == 1 .. (MaxSmall + 1)

SetMax(S) == CHOOSE m \in S : \A n \in S : n <= m

\* copy(dst, src): copies min(len(dst), len(src)) elements.
Copy(dst, src) ==
    [k \in 1 .. Len(dst) |-> IF k <= Len(src) THEN src[k] ELSE dst[k]]

\* make([]int, n): n zeros.
MakeInts(n) == [k \in 1 .. n |-> 0]

(***************************************************************************)
(* Dense converter: the input documents.                                   *)
(***************************************************************************)
\* The id stored at (x, y, z): every cell of an input holds a different id.
CellId(x, y, z) == x * 1024 + y * 32 + z

Leaf(x, y, nz) == [z \in 1 .. nz |-> CellId(x - 1, y - 1, z - 1)]
Row(x, ny, nz) == [y \in 1 .. ny |-> Leaf(x, y, nz)]
Volume(sx, sy, sz) == [x \in 1 .. sx |-> Row(x, sy, sz)]

\* Ragged arrays: a rectangular volume whose last first-level row ...
\* ... holds d leaf arrays,
ShortRow(sx, sy, sz, d) ==
    [x \in 1 .. sx |-> IF x = sx THEN Row(x, d, sz) ELSE Row(x, sy, sz)]
\* ... has a last leaf array of length d,
OddLeaf(sx, sy, sz, d) ==
    [x \in 1 .. sx |->
        [y \in 1 .. sy |-> IF x = sx /\ y = sy THEN Leaf(x, y, d) ELSE Leaf(x, y, sz)]]
\* ... holds only leaf arrays of length d.
OddRow(sx, sy, sz, d) ==
    [x \in 1 .. sx |-> IF x = sx THEN Row(x, sy, d) ELSE Row(x, sy, sz)]

RectangularArrays == {Volume(sx, sy, sz) : sx \in Sizes, sy \in Sizes, sz \in Sizes}
RaggedArrays ==
    UNION {{ShortRow(s[1], s[2], s[3], d), OddLeaf(s[1], s[2], s[3], d),
            OddRow(s[1], s[2], s[3], d)} :
           s \in SmallSizes \X SmallSizes \X SmallSizes, d \in Sizes}

\* Every document of DenseArrays satisfies inputJsonSchema: a 3-level nested
\* array of integers.
DenseArrays == RectangularArrays \cup RaggedArrays

Doc(kind, value) == [kind |-> kind, value |-> value]

\* What os.Args[1] may name: a file that cannot be read, bytes that are no
\* JSON, JSON the schema rejects, JSON the schema accepts and json.Unmarshal
\* rejects (an integer written 1.0), and the schema-valid arrays.
BadDocs == {Doc(k, <<>>) : k \in {"unreadable", "malformed", "invalid", "undecodable"}}
DenseDocs == BadDocs \cup {Doc("valid", a) : a \in DenseArrays}

(***************************************************************************)
(* Dense converter: validateArray, padArray, convertToSections.            *)
(***************************************************************************)
ValidateArray(a) ==
    /\ \A i \in 1 .. Len(a) - 1 : Len(a[i]) = Len(a[i + 1])
    /\ \A x \in 1 .. Len(a) :
          \A i \in 1 .. Len(a[x]) - 1 : Len(a[x][i]) = Len(a[x][i + 1])

\* Mutant of PaddedSize: rounds an exact multiple of 16 up to the next one.
PaddedSizeRoundsPast(n) == ((n + 16) \div SectionSize) * SectionSize

PaddedSize(n) == ((n + 15) \div SectionSize) * SectionSize

\* padArray panics when it indexes inputArray[0] or inputArray[0][0] of an array
\* that has none, or paddedArray[i][j] beyond ySize.
PadArrayPanics(a) ==
    \/ Len(a) = 0
    \/ Len(a[1]) = 0
    \/ \E i \in 1 .. Len(a) : Len(a[i]) > PaddedSize(Len(a[1]))

PadArray(a, paddingValue) ==
    LET xSize == PaddedSize(Len(a))
        ySize == PaddedSize(Len(a[1]))
        zSize == PaddedSize(Len(a[1][1]))
        filled == [k \in 1 .. zSize |-> paddingValue]
    IN  [i \in 1 .. xSize |->
            [j \in 1 .. ySize |->
                IF i <= Len(a) /\ j <= Len(a[i])
                THEN Copy(filled, a[i][j])
                ELSE filled]]

Section(x, y, z, b) == [X |-> x, Y |-> y, Z |-> z, Blocks |-> b]
ZeroSection == Section(0, 0, 0, <<>>)

\* The 16x16x16 blocks of the section at grid cell (i, j, k).
DenseBlocks(p, i, j, k) ==
    [l \in 1 .. SectionSize |->
        [m \in 1 .. SectionSize |->
            Copy(MakeInts(SectionSize),
                 SubSeq(p[i * SectionSize + l][j * SectionSize + m],
                        k * SectionSize + 1, (k + 1) * SectionSize))]]

\* The t-th iteration (t = 0, 1, ...) of the loops: i outermost, then k, then j.
DenseIteration(t, ySections, zSections) ==
    [i |-> t \div (zSections * ySections),
     k |-> (t \div ySections) % zSections,
     j |-> t % ySections]

\* Mutant of DensePosition: the position follows the loop nesting (x, z, y).
DensePositionLoopOrder(i, j, k, ySections, zSections) ==
    i * ySections * zSections + k * ySections + j

\* The list position the iteration (i, j, k) assigns.
DensePosition(i, j, k, ySections, zSections) ==
    i * ySections * zSections + j * zSections + k

\* convertToSections: the sections slice after the loops, and how often each
\* position was assigned.
DenseConvert(p) ==
    LET xSections == Len(p) \div SectionSize
        ySections == Len(p[1]) \div SectionSize
        zSections == Len(p[1][1]) \div SectionSize
        count == xSections * ySections * zSections
        it(t) == DenseIteration(t, ySections, zSections)
        pos(t) == DensePosition(it(t).i, it(t).j, it(t).k, ySections, zSections)
        at(q) == {t \in 0 .. count - 1 : pos(t) = q}
        made(t) == Section(it(t).i * SectionSize, it(t).j * SectionSize,
                           it(t).k * SectionSize,
                           DenseBlocks(p, it(t).i, it(t).j, it(t).k))
    IN  [sections |-> [q \in 1 .. count |->
                          IF at(q - 1) = {} THEN ZeroSection
                          ELSE made(SetMax(at(q - 1)))],
         writes |-> [q \in 1 .. count |-> Cardinality(at(q - 1))]]

DenseConvertPanics(p) == Len(p) = 0 \/ Len(p[1]) = 0

(***************************************************************************)
(* Both mains: reporting and leaving.                                      *)
(***************************************************************************)
\* logger.Error(msg); return
Abort(stage, msg) ==
    /\ pc' = "aborted"
    /\ errors' = Append(errors, msg)
    /\ stages' = Append(stages, stage)

\* the stage succeeded; main goes on
Pass(stage, next) ==
    /\ pc' = next
    /\ errors' = errors
    /\ stages' = Append(stages, stage)

\* a run-time panic: the process dies, nothing is reported through logger
Panic(stage) ==
    /\ pc' = "crashed"
    /\ errors' = errors
    /\ stages' = Append(stages, stage)

(***************************************************************************)
(* Dense converter: main.                                                  *)
(***************************************************************************)
DenseInit ==
    /\ pipeline = "dense"
    /\ pc = "args"
    /\ inputFile \in DenseDocs
    /\ dictFile = Doc("none", <<>>)
    /\ inputArray = <<>>
    /\ paddedArray = <<>>
    /\ inputMap = <<>>
    /\ blockDict = <<>>
    /\ blocks = <<>>
    /\ sections = <<>>
    /\ writes = <<>>
    /\ errors = <<>>
    /\ stages = <<>>
    /\ output = FALSE

\* len(os.Args) and whether os.Args[1] ends in ".json"
DenseCheckArgs ==
    /\ pipeline = "dense" /\ pc = "args"
    /\ \E argc \in 1 .. 3, json \in BOOLEAN :
          IF argc < 2 THEN Abort("args", "no input file specified")
          ELSE IF argc > 2 THEN Abort("args", "too many arguments")
          ELSE IF ~json THEN Abort("args", "input file must be a json file")
          ELSE Pass("args", "read")
    /\ UNCHANGED <<pipeline, inputFile, dictFile, inputArray, paddedArray, inputMap,
                   blockDict, blocks, sections, writes, output>>

DenseReadFile ==
    /\ pipeline = "dense" /\ pc = "read"
    /\ IF inputFile.kind = "unreadable"
       THEN Abort("read", "failed to read input file")
       ELSE Pass("read", "schema")
    /\ UNCHANGED <<pipeline, inputFile, dictFile, inputArray, paddedArray, inputMap,
                   blockDict, blocks, sections, writes, output>>

DenseValidateSchema ==
    /\ pipeline = "dense" /\ pc = "schema"
    /\ IF inputFile.kind = "malformed"
       THEN Abort("schema", "failed to validate input file")
       ELSE IF inputFile.kind = "invalid"
       THEN Abort("schema", "input file is not valid")
       ELSE Pass("schema", "decode")
    /\ UNCHANGED <<pipeline, inputFile, dictFile, inputArray, paddedArray, inputMap,
                   blockDict, blocks, sections, writes, output>>

DenseUnmarshal ==
    /\ pipeline = "dense" /\ pc = "decode"
    /\ IF inputFile.kind = "undecodable"
       THEN Abort("decode", "failed to parse input file") /\ inputArray' = inputArray
       ELSE Pass("decode", "validate") /\ inputArray' = inputFile.value
    /\ UNCHANGED <<pipeline, inputFile, dictFile, paddedArray, inputMap,
                   blockDict, blocks, sections, writes, output>>

\* Mutant of DenseValidate: the return after the error is missing.
DenseValidateNoReturn ==
    /\ pipeline = "dense" /\ pc = "validate"
    /\ pc' = "pad"
    /\ stages' = Append(stages, "validate")
    /\ errors' = IF ~ValidateArray(inputArray)
                 THEN Append(errors, "input array is not valid") ELSE errors
    /\ UNCHANGED <<pipeline, inputFile, dictFile, inputArray, paddedArray, inputMap,
                   blockDict, blocks, sections, writes, output>>

DenseValidate ==
    /\ pipeline = "dense" /\ pc = "validate"
    /\ IF ~ValidateArray(inputArray)
       THEN Abort("validate", "input array is not valid")
       ELSE Pass("validate", "pad")
    /\ UNCHANGED <<pipeline, inputFile, dictFile, inputArray, paddedArray, inputMap,
                   blockDict, blocks, sections, writes, output>>

DensePad ==
    /\ pipeline = "dense" /\ pc = "pad"
    /\ IF PadArrayPanics(inputArray)
       THEN Panic("pad") /\ paddedArray' = paddedArray
       ELSE Pass("pad", "convert") /\ paddedArray' = PadArray(inputArray, PaddingValue)
    /\ UNCHANGED <<pipeline, inputFile, dictFile, inputArray, inputMap,
                   blockDict, blocks, sections, writes, output>>

DenseSections ==
    /\ pipeline = "dense" /\ pc = "convert"
    /\ IF DenseConvertPanics(paddedArray)
       THEN Panic("convert") /\ UNCHANGED <<sections, writes>>
       ELSE /\ Pass("convert", "marshal")
            /\ sections' = DenseConvert(paddedArray).sections
            /\ writes' = DenseConvert(paddedArray).writes
    /\ UNCHANGED <<pipeline, inputFile, dictFile, inputArray, paddedArray, inputMap,
                   blockDict, blocks, output>>

\* json.Marshal of the level data map; the code handles its error.
DenseMarshal ==
    /\ pipeline = "dense" /\ pc = "marshal"
    /\ \E ok \in BOOLEAN :
          IF ok THEN Pass("marshal", "write")
          ELSE Abort("marshal", "failed to convert level data to json")
    /\ UNCHANGED <<pipeline, inputFile, dictFile, inputArray, paddedArray, inputMap,
                   blockDict, blocks, sections, writes, output>>

DenseWriteFile ==
    /\ pipeline = "dense" /\ pc = "write"
    /\ \E ok \in BOOLEAN :
          IF ok THEN Pass("write", "done") /\ output' = TRUE
          ELSE Abort("write", "failed to write level data to file") /\ output' = output
    /\ UNCHANGED <<pipeline, inputFile, dictFile, inputArray, paddedArray, inputMap,
                   blockDict, blocks, sections, writes>>

DenseNext ==
    \/ DenseCheckArgs
    \/ DenseReadFile
    \/ DenseValidateSchema
    \/ DenseUnmarshal
    \/ DenseValidate
    \/ DensePad
    \/ DenseSections
    \/ DenseMarshal
    \/ DenseWriteFile

DenseSpec == DenseInit /\ [][DenseNext]_vars

(***************************************************************************)
(* Structure converter: the input documents.                               *)
(***************************************************************************)
MaxPalette == 3

\* size: three integers, each at least 1 (the schema's minimum).
StructSizes == (1 .. MaxSmall) \cup {SectionSize, SectionSize + 1}

\* The name at palette position i (i = 0, 1, ...).  The dictionaries below know
\* the first two names only.
PaletteName(i) ==
    IF i = 0 THEN "minecraft:stone"
    ELSE IF i = 1 THEN "minecraft:dirt"
    ELSE IF i = 2 THEN "minecraft:bedrock"
    ELSE "minecraft:sponge"

Palette(n) == [i \in 1 .. n |-> PaletteName(i - 1)]

\* block_indices[0]: n indices 0, 1, .., m-1, 0, 1, ...
Cyclic(n, m) == [p \in 1 .. n |-> (p - 1) % m]
\* ... the same with -1 in the first place,
NegativeFirst(n, m) == [p \in 1 .. n |-> IF p = 1 THEN -1 ELSE (p - 1) % m]
\* ... and n times -1.
AllNegative(n) == [p \in 1 .. n |-> -1]

IndexBuffers(n) ==
    {Cyclic(n, m) : m \in 1 .. MaxPalette}
        \cup {NegativeFirst(n, m) : m \in 1 .. MaxPalette}
        \cup {AllNegative(n)}

InputMap(size, indices, palette) ==
    [size |-> size, block_indices |-> <<indices>>, palette |-> palette]

\* Schema-valid inputs: buffers of the declared length with every palette
\* length, and buffers one index longer or shorter than declared.
StructMaps ==
    UNION {{InputMap(s, b, Palette(n)) :
               b \in IndexBuffers(s[1] * s[2] * s[3]), n \in 1 .. MaxPalette + 1}
           \cup {InputMap(s, Cyclic(s[1] * s[2] * s[3] + 1, 1), Palette(1))}
           \cup (IF s[1] * s[2] * s[3] > 1
                 THEN {InputMap(s, Cyclic(s[1] * s[2] * s[3] - 1, 1), Palette(1))}
                 ELSE {}) :
           s \in StructSizes \X StructSizes \X StructSizes}

StructDocs == BadDocs \cup {Doc("valid", m) : m \in StructMaps}

\* Dictionaries blockDictJsonSchema accepts: the names they know are keys.
ExampleDict == [n \in {"minecraft:stone", "minecraft:dirt"} |->
                   IF n = "minecraft:stone" THEN 1 ELSE 3]
EmptyDict == [n \in {} |-> 0]
DictDocs == BadDocs \cup {Doc("valid", ExampleDict), Doc("valid", EmptyDict)}

(***************************************************************************)
(* Structure converter: validateInput, convertToSections.                  *)
(***************************************************************************)
\* The loop keeps the largest index seen, starting from 0.
ExpectedBlockTypeCount(indices) ==
    SetMax({0} \cup {indices[p] : p \in 1 .. Len(indices)}) + 1

ValidateInput(m) ==
    LET expectedBlockCount == m.size[1] * m.size[2] * m.size[3]
        indices == m.block_indices[1]
    IN  IF Len(indices) # expectedBlockCount THEN FALSE
        ELSE Len(m.palette) = ExpectedBlockTypeCount(indices)

\* blockIndiceDict[int(blockIndice)] panics outside 0 .. len(palette) - 1.
StructConvertPanics(m) ==
    \E p \in 1 .. Len(m.block_indices[1]) :
        \/ m.block_indices[1][p] < 0
        \/ m.block_indices[1][p] >= Len(m.palette)

\* Mutant of ResolveBlocks: an unknown name gets the out-of-range id.
ResolveBlocksWrongDefault(m, dict, defaultBlockId) ==
    [p \in 1 .. Len(m.block_indices[1]) |->
        LET blockName == m.palette[m.block_indices[1][p] + 1]
        IN  IF blockName \in DOMAIN dict THEN dict[blockName] ELSE OutOfRangeBlockId]

\* The ids of the indices: the dictionary's, or the default for an unknown name.
ResolveBlocks(m, dict, defaultBlockId) ==
    [p \in 1 .. Len(m.block_indices[1]) |->
        LET blockName == m.palette[m.block_indices[1][p] + 1]
        IN  IF blockName \in DOMAIN dict THEN dict[blockName] ELSE defaultBlockId]

SectionCount(n) == (n + 15) \div SectionSize

\* The flat offset at which the section at grid cell (x, y, z) starts reading.
StructOffset(size, x, y, z) ==
    x * SectionSize * size[1] * size[2] + y * SectionSize * size[1] + z * SectionSize

\* Mutant of StructBlocks: an offset past the buffer wraps to its start.
StructBlocksWrapped(ids, offset, outOfRangeBlockId) ==
    [i \in 1 .. SectionBlocks |-> ids[(((i - 1) + offset) % Len(ids)) + 1]]

StructBlocks(ids, offset, outOfRangeBlockId) ==
    [i \in 1 .. SectionBlocks |->
        IF (i - 1) + offset >= Len(ids) THEN outOfRangeBlockId
        ELSE ids[(i - 1) + offset + 1]]

\* The sections appended by the loops: x outermost, then y, then z.
StructConvert(size, ids, outOfRangeBlockId) ==
    LET cx == SectionCount(size[1])
        cy == SectionCount(size[2])
        cz == SectionCount(size[3])
        x(q) == q \div (cy * cz)
        y(q) == (q \div cz) % cy
        z(q) == q % cz
    IN  [q \in 1 .. cx * cy * cz |->
            Section(x(q - 1) * SectionSize, y(q - 1) * SectionSize,
                    z(q - 1) * SectionSize,
                    StructBlocks(ids, StructOffset(size, x(q - 1), y(q - 1), z(q - 1)),
                                 outOfRangeBlockId))]

(***************************************************************************)
(* Structure converter: main.                                              *)
(***************************************************************************)
StructInit ==
    /\ pipeline = "structure"
    /\ pc = "args"
    /\ inputFile \in StructDocs
    /\ dictFile \in DictDocs
    /\ inputArray = <<>>
    /\ paddedArray = <<>>
    /\ inputMap = <<>>
    /\ blockDict = <<>>
    /\ blocks = <<>>
    /\ sections = <<>>
    /\ writes = <<>>
    /\ errors = <<>>
    /\ stages = <<>>
    /\ output = FALSE

\* len(os.Args) and whether os.Args[1] and os.Args[2] both end in ".json"
StructCheckArgs ==
    /\ pipeline = "structure" /\ pc = "args"
    /\ \E argc \in 2 .. 4, json \in BOOLEAN :
          IF argc < 3 THEN Abort("args", "no input file or dictionary specified")
          ELSE IF argc > 3 THEN Abort("args", "too many arguments")
          ELSE IF ~json
          THEN Abort("args", "input file and dictionary file must be JSON files")
          ELSE Pass("args", "read")
    /\ UNCHANGED <<pipeline, inputFile, dictFile, inputArray, paddedArray, inputMap,
                   blockDict, blocks, sections, writes, output>>

StructReadFile ==
    /\ pipeline = "structure" /\ pc = "read"
    /\ IF inputFile.kind = "unreadable"
       THEN Abort("read", "failed to read input file")
       ELSE Pass("read", "schema")
    /\ UNCHANGED <<pipeline, inputFile, dictFile, inputArray, paddedArray, inputMap,
                   blockDict, blocks, sections, writes, output>>

StructValidateSchema ==
    /\ pipeline = "structure" /\ pc = "schema"
    /\ IF inputFile.kind = "malformed"
       THEN Abort("schema", "failed to validate input file")
       ELSE IF inputFile.kind = "invalid"
       THEN Abort("schema", "input file is not valid")
       ELSE Pass("schema", "decode")
    /\ UNCHANGED <<pipeline, inputFile, dictFile, inputArray, paddedArray, inputMap,
                   blockDict, blocks, sections, writes, output>>

StructUnmarshal ==
    /\ pipeline = "structure" /\ pc = "decode"
    /\ IF inputFile.kind = "undecodable"
       THEN Abort("decode", "failed to parse input file") /\ inputMap' = inputMap
       ELSE Pass("decode", "readDict") /\ inputMap' = inputFile.value
    /\ UNCHANGED <<pipeline, inputFile, dictFile, inputArray, paddedArray,
                   blockDict, blocks, sections, writes, output>>

StructReadDict ==
    /\ pipeline = "structure" /\ pc = "readDict"
    /\ IF dictFile.kind = "unreadable"
       THEN Abort("readDict", "failed to read block dictionary")
       ELSE Pass("readDict", "schemaDict")
    /\ UNCHANGED <<pipeline, inputFile, dictFile, inputArray, paddedArray, inputMap,
                   blockDict, blocks, sections, writes, output>>

StructValidateDict ==
    /\ pipeline = "structure" /\ pc = "schemaDict"
    /\ IF dictFile.kind = "malformed"
       THEN Abort("schemaDict", "failed to validate block dictionary")
       ELSE IF dictFile.kind = "invalid"
       THEN Abort("schemaDict", "block dictionary is not valid")
       ELSE Pass("schemaDict", "decodeDict")
    /\ UNCHANGED <<pipeline, inputFile, dictFile, inputArray, paddedArray, inputMap,
                   blockDict, blocks, sections, writes, output>>

StructUnmarshalDict ==
    /\ pipeline = "structure" /\ pc = "decodeDict"
    /\ IF dictFile.kind = "undecodable"
       THEN Abort("decodeDict", "failed to parse block dictionary") /\ blockDict' = blockDict
       ELSE Pass("decodeDict", "validate") /\ blockDict' = dictFile.value
    /\ UNCHANGED <<pipeline, inputFile, dictFile, inputArray, paddedArray, inputMap,
                   blocks, sections, writes, output>>

StructValidate ==
    /\ pipeline = "structure" /\ pc = "validate"
    /\ IF ~ValidateInput(inputMap)
       THEN Abort("validate", "input map is not valid")
       ELSE Pass("validate", "convert")
    /\ UNCHANGED <<pipeline, inputFile, dictFile, inputArray, paddedArray, inputMap,
                   blockDict, blocks, sections, writes, output>>

StructSections ==
    /\ pipeline = "structure" /\ pc = "convert"
    /\ IF StructConvertPanics(inputMap)
       THEN Panic("convert") /\ UNCHANGED <<blocks, sections>>
       ELSE /\ Pass("convert", "marshal")
            /\ blocks' = ResolveBlocks(inputMap, blockDict, DefaultBlockId)
            /\ sections' = StructConvert(inputMap.size,
                                         ResolveBlocks(inputMap, blockDict, DefaultBlockId),
                                         OutOfRangeBlockId)
    /\ UNCHANGED <<pipeline, inputFile, dictFile, inputArray, paddedArray, inputMap,
                   blockDict, writes, output>>

StructMarshal ==
    /\ pipeline = "structure" /\ pc = "marshal"
    /\ \E ok \in BOOLEAN :
          IF ok THEN Pass("marshal", "write")
          ELSE Abort("marshal", "failed to convert level data to json")
    /\ UNCHANGED <<pipeline, inputFile, dictFile, inputArray, paddedArray, inputMap,
                   blockDict, blocks, sections, writes, output>>

StructWriteFile ==
    /\ pipeline = "structure" /\ pc = "write"
    /\ \E ok \in BOOLEAN :
          IF ok THEN Pass("write", "done") /\ output' = TRUE
          ELSE Abort("write", "failed to write level data to file") /\ output' = output
    /\ UNCHANGED <<pipeline, inputFile, dictFile, inputArray, paddedArray, inputMap,
                   blockDict, blocks, sections, writes>>

StructNext ==
    \/ StructCheckArgs
    \/ StructReadFile
    \/ StructValidateSchema
    \/ StructUnmarshal
    \/ StructReadDict
    \/ StructValidateDict
    \/ StructUnmarshalDict
    \/ StructValidate
    \/ StructSections
    \/ StructMarshal
    \/ StructWriteFile

StructSpec == StructInit /\ [][StructNext]_vars

(***************************************************************************)
(* Either program.                                                         *)
(***************************************************************************)
Init == DenseInit \/ StructInit
Next == DenseNext \/ StructNext
Spec == Init /\ [][Next]_vars

(***************************************************************************)
(* Properties.                                                             *)
(***************************************************************************)
\* The stage ran and main went on after it.
Succeeded(stage) ==
    \E n \in 1 .. Len(stages) :
        /\ stages[n] = stage
        /\ n < Len(stages) \/ pc \notin {"aborted", "crashed"}

\* The stage ran, whatever came of it.
Ran(stage) == \E n \in 1 .. Len(stages) : stages[n] = stage

\* ceil(n / 16)
CeilSections(n) == CHOOSE c \in 0 .. n : c * 16 >= n /\ (c - 1) * 16 < n

\* Every first-level row has as many leaf arrays as the first, and every leaf
\* array of the volume is as long as the first.
Rectangular(a) ==
    /\ \A x \in 1 .. Len(a) : Len(a[x]) = Len(a[1])
    /\ \A x \in 1 .. Len(a) : \A y \in 1 .. Len(a[x]) : Len(a[x][y]) = Len(a[1][1])

NonZeroExtents(a) == Len(a) > 0 /\ Len(a[1]) > 0 /\ Len(a[1][1]) > 0

\* C1: padArray(V, -1) of a rectangular volume V with non-zero extents
\* (sx, sy, sz) has extents (ceil(sx/16)*16, ceil(sy/16)*16, ceil(sz/16)*16),
\* holds V[x][y][z] at every cell of V and -1 at every other cell, and leaves V
\* as it was decoded.
C1_PadArray ==
    (/\ pipeline = "dense"
     /\ Succeeded("pad")
     /\ NonZeroExtents(inputArray)
     /\ Rectangular(inputArray))
    => LET V == inputArray
           P == paddedArray
           sx == Len(V)
           sy == Len(V[1])
           sz == Len(V[1][1])
       IN  /\ Len(P) = CeilSections(sx) * 16
           /\ \A x \in 1 .. Len(P) :
                 /\ Len(P[x]) = CeilSections(sy) * 16
                 /\ \A y \in 1 .. Len(P[x]) :
                       /\ Len(P[x][y]) = CeilSections(sz) * 16
                       /\ \A z \in 1 .. Len(P[x][y]) :
                             P[x][y][z] = IF x <= sx /\ y <= sy /\ z <= sz
                                          THEN V[x][y][z] ELSE -1
           /\ V = inputFile.value

\* A 17 x 1 x 16 volume was padded: two axes grow, one is already aligned.
C1_Witness ==
    /\ pipeline = "dense"
    /\ pc = "convert"
    /\ Rectangular(inputArray)
    /\ Len(inputArray) = 17
    /\ Len(inputArray[1]) = 1
    /\ Len(inputArray[1][1]) = 16
    /\ Len(paddedArray) = 32

\* The section whose cube holds the cell (x, y, z), coordinates from 0.
InCube(s, x, y, z) ==
    /\ s.X <= x /\ x < s.X + 16
    /\ s.Y <= y /\ y < s.Y + 16
    /\ s.Z <= z /\ z < s.Z + 16

\* C2: convertToSections of a padded volume P (extents multiples of 16) returns
\* (|P.x|/16)*(|P.y|/16)*(|P.z|/16) sections; the section of grid cell (i, j, k)
\* is at list position i*ny*nz + j*nz + k, has origin (16i, 16j, 16k) and
\* 16x16x16 blocks with blocks[l][m][n] = P[16i+l][16j+m][16k+n]; every cell of
\* P lies in exactly one section and every list position is written once.
C2_DenseSections ==
    (/\ pipeline = "dense"
     /\ Succeeded("convert")
     /\ Len(paddedArray) % 16 = 0
     /\ Len(paddedArray[1]) % 16 = 0
     /\ Len(paddedArray[1][1]) % 16 = 0)
    => LET P == paddedArray
           nx == Len(P) \div 16
           ny == Len(P[1]) \div 16
           nz == Len(P[1][1]) \div 16
       IN  /\ Len(sections) = nx * ny * nz
           /\ \A i \in 0 .. nx - 1, j \in 0 .. ny - 1, k \in 0 .. nz - 1 :
                 LET s == sections[i * ny * nz + j * nz + k + 1]
                 IN  /\ s.X = 16 * i /\ s.Y = 16 * j /\ s.Z = 16 * k
                     /\ Len(s.Blocks) = 16
                     /\ \A l \in 1 .. 16 :
                           /\ Len(s.Blocks[l]) = 16
                           /\ \A m \in 1 .. 16 :
                                 /\ Len(s.Blocks[l][m]) = 16
                                 /\ \A n \in 1 .. 16 :
                                       s.Blocks[l][m][n] =
                                           P[16 * i + l][16 * j + m][16 * k + n]
           /\ \A q \in 1 .. Len(writes) : writes[q] = 1
           /\ Len(writes) = Len(sections)
           /\ \A x \in 0 .. Len(P) - 1, y \in 0 .. Len(P[1]) - 1,
                 z \in 0 .. Len(P[1][1]) - 1 :
                 Cardinality({q \in 1 .. Len(sections) :
                                 InCube(sections[q], x, y, z)}) = 1

\* A 32 x 32 x 32 volume was cut into its eight sections.
C2_Witness ==
    /\ pipeline = "dense"
    /\ Succeeded("convert")
    /\ Len(paddedArray) = 32
    /\ Len(paddedArray[1]) = 32
    /\ Len(paddedArray[1][1]) = 32
    /\ Len(sections) = 8

\* The stages of each main, in the order of the code.
StageOrder ==
    IF pipeline = "dense"
    THEN <<"args", "read", "schema", "decode", "validate", "pad", "convert",
           "marshal", "write">>
    ELSE <<"args", "read", "schema", "decode", "readDict", "schemaDict",
           "decodeDict", "validate", "convert", "marshal", "write">>

\* C3: in both pipelines the output file is written only on a run in which
\* every earlier stage succeeded; when a stage fails, exactly one error is
\* reported, no later stage runs and no output file is written.
C3_AbortOnFailure ==
    /\ Len(stages) <= Len(StageOrder)
    /\ \A n \in 1 .. Len(stages) : stages[n] = StageOrder[n]
    /\ output => (pc = "done" /\ stages = StageOrder /\ errors = <<>>)
    /\ pc = "aborted" => (Len(errors) = 1 /\ ~output /\ ~ENABLED Next)
    /\ pc # "aborted" => errors = <<>>

\* The structure converter stopped at validateInput, its eighth stage.
C3_Witness ==
    /\ pipeline = "structure"
    /\ pc = "aborted"
    /\ Len(stages) = 8
    /\ stages[8] = "validate"
    /\ errors = <<"input map is not valid">>

\* C4: whenever validateArray returns true, every first-level row has the same
\* number of leaf arrays and every leaf array of the whole volume has the
\* same length.
C4_NoRaggedAccepted ==
    (pipeline = "dense" /\ Succeeded("validate")) => Rectangular(inputArray)

\* The largest index of the buffer.
MaxIndex(indices) == SetMax({indices[p] : p \in 1 .. Len(indices)})

\* C5: validateInput succeeds exactly when len(B) = sx*sy*sz and the palette
\* length is max(B) + 1.
C5_ValidateInput ==
    (pipeline = "structure" /\ Ran("validate"))
    => LET B == inputMap.block_indices[1]
           size == inputMap.size
       IN  Succeeded("validate")
               <=> (/\ Len(B) = size[1] * size[2] * size[3]
                    /\ Len(inputMap.palette) = MaxIndex(B) + 1)

\* The base offset of a section, from its origin and the declared size.
BaseOffset(s, size) ==
    (s.X \div 16) * 16 * size[1] * size[2] + (s.Y \div 16) * 16 * size[1]
        + (s.Z \div 16) * 16

\* C6: every emitted section holds 4096 ids; entry i of the section with base
\* offset b is the resolved id at flat position b+i when b+i < len(B) and -1
\* otherwise; when every declared extent is at most 16 there is one section,
\* at the origin, holding the resolved ids in input order and then -1.
C6_OutOfRangeFill ==
    (pipeline = "structure" /\ Succeeded("convert"))
    => LET size == inputMap.size
           n == Len(inputMap.block_indices[1])
       IN  /\ \A q \in 1 .. Len(sections) :
                 LET b == BaseOffset(sections[q], size)
                 IN  /\ Len(sections[q].Blocks) = 4096
                     /\ b >= 0
                     /\ \A i \in 0 .. 4095 :
                           sections[q].Blocks[i + 1] =
                               IF b + i < n THEN blocks[b + i + 1] ELSE -1
           /\ (size[1] <= 16 /\ size[2] <= 16 /\ size[3] <= 16)
                 => /\ Len(sections) = 1
                    /\ sections[1].X = 0 /\ sections[1].Y = 0 /\ sections[1].Z = 0
                    /\ \A i \in 1 .. 4096 :
                          sections[1].Blocks[i] = IF i <= n THEN blocks[i] ELSE -1

\* A 1 x 1 x 17 buffer gave two sections; the second starts at offset 16, holds
\* the last id and then the out-of-range id.
C6_Witness ==
    /\ pipeline = "structure"
    /\ Succeeded("convert")
    /\ Len(blocks) = 17
    /\ Len(sections) = 2
    /\ sections[2].Z = 16
    /\ sections[2].Blocks[1] = blocks[17]
    /\ sections[2].Blocks[2] = -1

\* C7: the resolved buffer is as long as the index buffer and in its order; the
\* id at p is dictionary[palette[B[p]]] when that name is a key of the
\* dictionary and 0 otherwise; an unknown name stops nothing.
C7_PaletteResolution ==
    (/\ pipeline = "structure"
     /\ Ran("convert")
     /\ \A p \in 1 .. Len(inputMap.block_indices[1]) :
           /\ inputMap.block_indices[1][p] >= 0
           /\ inputMap.block_indices[1][p] < Len(inputMap.palette))
    => LET B == inputMap.block_indices[1]
           name(p) == inputMap.palette[B[p] + 1]
       IN  /\ Succeeded("convert")
           /\ Len(blocks) = Len(B)
           /\ \A p \in 1 .. Len(B) :
                 blocks[p] = IF name(p) \in DOMAIN blockDict
                             THEN blockDict[name(p)] ELSE 0

\* A buffer with a known and an unknown name was resolved.
C7_Witness ==
    /\ pipeline = "structure"
    /\ Succeeded("convert")
    /\ \E p \in 1 .. Len(blocks) :
          /\ inputMap.palette[inputMap.block_indices[1][p] + 1] \notin DOMAIN blockDict
          /\ blocks[p] = 0
    /\ \E p \in 1 .. Len(blocks) :
          /\ inputMap.palette[inputMap.block_indices[1][p] + 1] = "minecraft:dirt"
          /\ blocks[p] = 3

\* C8: the sections of a validated input of size (sx, sy, sz) are
\* ceil(sx/16)*ceil(sy/16)*ceil(sz/16) many, in x, then y, then z order, with
\* pairwise distinct origins, and every cell of the flat buffer is copied into
\* exactly one of them.
C8_Partition ==
    (pipeline = "structure" /\ Succeeded("convert"))
    => LET size == inputMap.size
           cx == CeilSections(size[1])
           cy == CeilSections(size[2])
           cz == CeilSections(size[3])
       IN  /\ Len(sections) = cx * cy * cz
           /\ \A x \in 0 .. cx - 1, y \in 0 .. cy - 1, z \in 0 .. cz - 1 :
                 LET s == sections[x * cy * cz + y * cz + z + 1]
                 IN  s.X = 16 * x /\ s.Y = 16 * y /\ s.Z = 16 * z
           /\ \A q, r \in 1 .. Len(sections) :
                 q # r => <<sections[q].X, sections[q].Y, sections[q].Z>>
                              # <<sections[r].X, sections[r].Y, sections[r].Z>>
           /\ \A p \in 0 .. Len(blocks) - 1 :
                 Cardinality({q \in 1 .. Len(sections) :
                                 /\ BaseOffset(sections[q], size) <= p
                                 /\ p < BaseOffset(sections[q], size) + 4096}) = 1

\* C9: whenever a schema-valid input passes validateInput, every value of the
\* index buffer is a position of the palette, and the palette lookup of
\* convertToSections stays inside the palette.
C9_IndicesInPalette ==
    (pipeline = "structure" /\ Succeeded("validate"))
    => /\ \A p \in 1 .. Len(inputMap.block_indices[1]) :
             /\ 0 <= inputMap.block_indices[1][p]
             /\ inputMap.block_indices[1][p] < Len(inputMap.palette)
       /\ pc # "crashed"

\* C10: a dense input that passes the schema and validateArray ends with the
\* output written or with one reported error; no stage dies unreported.
C10_NoCrash ==
    (pipeline = "dense" /\ Succeeded("validate"))
    => /\ pc # "crashed"
       /\ ~ENABLED Next => (output \/ Len(errors) = 1)

====
